---- MODULE Spec2Model ----
(***************************************************************************)
(* Model of the command-line MCP client: index.ts (main, MCPClient),       *)
(* client/connection.ts (connectToServer), client/chat-loop.ts (chatLoop,  *)
(* cleanup) and client/handlers.ts (processQuery).                         *)
(*                                                                         *)
(* The program is one sequential task; pc is its position, and every       *)
(* action is the code between two await points.  Strings are sequences of  *)
(* tokens: operator input and script paths are sequences of characters,    *)
(* other text is a sequence of opaque tokens.                              *)
(***************************************************************************)
EXTENDS Integers, Sequences, FiniteSets, TLC

VARIABLES
    pc,          \* position of the single task
    env,         \* [apiKey, argv, platform]: process environment and argv
    client,      \* TRUE once new MCPClient() has run
    transport,   \* this.transport: Null or [command, args]
    tools,       \* this.tools: the catalog handed to the model API
    toolsResult, \* connectToServer: toolsResult.tools as listTools returned it
    mcpLog,      \* calls made on this.mcp over the session, in order
    closed,      \* TRUE once this.mcp.close() has resolved
    rl,          \* readline interface: "none", "open", "closed"
    prompts,     \* number of rl.question prompts issued
    message,     \* chatLoop: the line just read
    messages,    \* processQuery: the conversation array
    response,    \* processQuery: response.content of the first API call
    idx,         \* processQuery: position of the for-of loop in response
    finalText,   \* processQuery: the finalText array
    result,      \* processQuery: result of the pending callTool
    calls,       \* external calls made by the current resolution, in order
    followUps,   \* follow-up responses received by the current resolution
    inFlight,    \* number of processQuery calls started and not returned
    returned,    \* chatLoop: the string processQuery returned
    printed,     \* number of responses chatLoop has printed
    failedOnce,  \* TRUE once some processQuery call went through its catch
    outcome,     \* how the last processQuery call ended: "none", "try", "catch"
    pending,     \* the error main's try block is unwinding with, or Null
    exitStatus   \* Null while running, else the process exit status

vars == <<pc, env, client, transport, tools, toolsResult, mcpLog, closed, rl,
          prompts, message, messages, response, idx, finalText, result, calls,
          followUps, inFlight, returned, printed, failedOnce, outcome,
          pending, exitStatus>>

\* ---------------------------------------------------------------- bounds
MaxItems == 2      \* longest first-call response.content
MaxPrompts == 2    \* prompts issued in one session

\* ---------------------------------------------------------------- values
\* JavaScript values that are not strings are records; a string is a sequence
\* of tokens, so "" is << >>.
NoError == [type |-> "none"]
ErrorObj(msg) == [type |-> "Error", message |-> msg]   \* instanceof Error
NonError == [type |-> "thrown"]                          \* a thrown non-Error value
Thrown == {ErrorObj(<<"boom">>), NonError}

NoTransport == [type |-> "null"]

Text(t) == [type |-> "text", text |-> t]
ToolUse(n, a) == [type |-> "tool_use", name |-> n, input |-> a]
UndefinedInput == [type |-> "undefined"]
SearchInput == [type |-> "object", query |-> <<"typescript">>]

\* ---------------------------------------------------- environment inputs
Platforms == {"win32", "linux", "darwin"}

ScriptPaths ==
    { <<"s", ".", "j", "s">>, <<"s", ".", "p", "y">>, <<"s", ".", "r", "b">>,
      <<"j", "s">>, <<"s", ".", "p", "y", "c">> }

Argvs == {<<"node", "index">>} \cup {<<"node", "index", p>> : p \in ScriptPaths}

Lines ==
    { <<"q", "u", "i", "t">>, <<"Q", "U", "I", "T">>, <<"Q", "u", "i", "t">>,
      <<" ", "q", "u", "i", "t", " ">>, <<"h", "i">> }

WebSearch == [name |-> "web_search", description |-> "search the web",
              inputSchema |-> [type |-> "object"]]
Calc == [name |-> "calc", description |-> "evaluate",
         inputSchema |-> [type |-> "object", required |-> <<"expr">>]]
ToolLists == {<< >>, <<WebSearch, Calc>>}

Items == { Text(<<"A">>), ToolUse("web_search", SearchInput),
           ToolUse("calc", UndefinedInput) }

RECURSIVE SeqsUpTo(_, _)
SeqsUpTo(S, n) ==
    IF n = 0 THEN {<< >>}
    ELSE LET shorter == SeqsUpTo(S, n - 1)
         IN  shorter \cup {Append(s, x) : s \in {t \in shorter : Len(t) = n - 1}, x \in S}

FirstResponses == SeqsUpTo(Items, MaxItems)

FollowUpResponses ==
    { << >>, <<Text(<<"S">>), ToolUse("calc", UndefinedInput)>>,
      <<ToolUse("calc", UndefinedInput), Text(<<"S">>)>> }

ToolResults == {<<"r1">>, <<"r2">>}

\* ------------------------------------------------------- string helpers
UpperCase == <<"Q", "U", "I", "T", "H">>
LowerCase == <<"q", "u", "i", "t", "h">>

ToLowerChar(c) ==
    IF \E i \in 1..Len(UpperCase) : UpperCase[i] = c
    THEN LowerCase[CHOOSE i \in 1..Len(UpperCase) : UpperCase[i] = c]
    ELSE c

toLowerCase(s) == [i \in 1..Len(s) |-> ToLowerChar(s[i])]

endsWith(s, suffix) ==
    /\ Len(suffix) <= Len(s)
    /\ SubSeq(s, Len(s) - Len(suffix) + 1, Len(s)) = suffix

startsWith(s, prefix) ==
    /\ Len(prefix) <= Len(s)
    /\ SubSeq(s, 1, Len(prefix)) = prefix

RECURSIVE join(_, _)
join(arr, sep) ==
    IF Len(arr) = 0 THEN << >>
    ELSE IF Len(arr) = 1 THEN arr[1]
    ELSE arr[1] \o sep \o join(Tail(arr), sep)

\* JSON.stringify of a tool_use input; undefined stringifies to undefined,
\* which the template literal renders as the word.
JSONstringify(v) ==
    IF v.type = "undefined" THEN <<"undefined">>
    ELSE <<"{", "\"query\"", ":">> \o <<"\"">> \o v.query \o <<"\"", "}">>

\* ------------------------------------------------------------ the program
Init ==
    /\ pc = "boot"
    /\ env \in [apiKey : BOOLEAN, argv : Argvs, platform : Platforms]
    /\ client = FALSE
    /\ transport = NoTransport
    /\ tools = << >>
    /\ toolsResult = << >>
    /\ mcpLog = << >>
    /\ closed = FALSE
    /\ rl = "none"
    /\ prompts = 0
    /\ message = << >>
    /\ messages = << >>
    /\ response = << >>
    /\ idx = 0
    /\ finalText = << >>
    /\ result = << >>
    /\ calls = << >>
    /\ followUps = << >>
    /\ inFlight = 0
    /\ returned = << >>
    /\ printed = 0
    /\ failedOnce = FALSE
    /\ outcome = "none"
    /\ pending = NoError
    /\ exitStatus = -1

\* Mutant: the credential is never checked.
CheckApiKeySkipped ==
    /\ pc = "boot"
    /\ pc' = "main"
    /\ UNCHANGED <<closed, env, client, transport, tools, toolsResult, mcpLog, rl,
                   prompts, message, messages, response, idx, finalText,
                   result, calls, followUps, inFlight, returned, printed,
                   failedOnce, outcome, pending, exitStatus>>

\* index.ts top level: the credential check that runs before main().
CheckApiKey ==
    /\ pc = "boot"
    /\ IF ~env.apiKey
       THEN /\ pc' = "exited"
            /\ pending' = ErrorObj(<<"ANTHROPIC_API_KEY is not set">>)
            /\ exitStatus' = 1
       ELSE /\ pc' = "main"
            /\ UNCHANGED <<pending, exitStatus>>
    /\ UNCHANGED <<closed, env, client, transport, tools, toolsResult, mcpLog, rl, prompts, message,
                   messages, response, idx, finalText, result, calls, followUps,
                   inFlight, returned, printed, failedOnce, outcome>>

\* main(): the usage check and new MCPClient().
Main ==
    /\ pc = "main"
    /\ IF Len(env.argv) < 3
       THEN /\ pc' = "exited"
            /\ exitStatus' = 0
            /\ UNCHANGED client
       ELSE /\ pc' = "connect"
            /\ client' = TRUE
            /\ UNCHANGED exitStatus
    /\ UNCHANGED <<closed, env, transport, tools, toolsResult, mcpLog, rl, prompts, message, messages,
                   response, idx, finalText, result, calls, followUps, inFlight,
                   returned, printed, failedOnce, outcome, pending>>

\* Mutant: the platform test is inverted.
CommandPlatformSwapped(path) ==
    IF endsWith(path, <<".", "p", "y">>)
    THEN IF env.platform = "win32" THEN "python3" ELSE "python"
    ELSE "execPath"

\* connectToServer: the interpreter chosen for a script path.
Command(path) ==
    IF endsWith(path, <<".", "p", "y">>)
    THEN IF env.platform = "win32" THEN "python" ELSE "python3"
    ELSE "execPath"

\* Mutant: the extension check without the dot.
ValidScriptNoDot(path) ==
    endsWith(path, <<"j", "s">>) \/ endsWith(path, <<"p", "y">>)

\* connectToServer: the extension check.
ValidScript(path) ==
    endsWith(path, <<".", "j", "s">>) \/ endsWith(path, <<".", "p", "y">>)

\* Mutant: the catch swallows the extension error and connectToServer returns.
ConnectToServerSwallows ==
    /\ pc = "connect"
    /\ LET path == env.argv[3] IN
       IF ~(endsWith(path, <<".", "j", "s">>) \/ endsWith(path, <<".", "p", "y">>))
       THEN /\ pc' = "chatLoop"
            /\ UNCHANGED <<transport, mcpLog>>
       ELSE /\ transport' = [command |-> Command(path), args |-> <<path>>]
            /\ mcpLog' = Append(mcpLog, "connect")
            /\ pc' = "handshake"
    /\ UNCHANGED <<closed, env, client, tools, toolsResult, rl, prompts, message,
                   messages, response, idx, finalText, result, calls,
                   followUps, inFlight, returned, printed, failedOnce,
                   outcome, pending, exitStatus>>

\* connectToServer up to `await this.mcp.connect(this.transport)`; a bad
\* extension throws, and the catch re-throws into main's try block.
ConnectToServer ==
    /\ pc = "connect"
    /\ LET path == env.argv[3] IN
       IF ~ValidScript(path)
       THEN /\ pending' = ErrorObj(<<"Server script must be a .js or .py file">>)
            /\ pc' = "cleanup"
            /\ UNCHANGED <<transport, mcpLog>>
       ELSE /\ transport' = [command |-> Command(path), args |-> <<path>>]
            /\ mcpLog' = Append(mcpLog, "connect")
            /\ pc' = "handshake"
            /\ UNCHANGED pending
    /\ UNCHANGED <<closed, env, client, tools, toolsResult, rl, prompts, message, messages, response,
                   idx, finalText, result, calls, followUps, inFlight, returned,
                   printed, failedOnce, outcome, exitStatus>>

\* this.mcp.connect resolved; connectToServer goes on to `await listTools()`.
HandshakeOk ==
    /\ pc = "handshake"
    /\ mcpLog' = Append(mcpLog, "listTools")
    /\ pc' = "discovery"
    /\ UNCHANGED <<closed, env, client, transport, tools, toolsResult, rl, prompts, message, messages,
                   response, idx, finalText, result, calls, followUps, inFlight,
                   returned, printed, failedOnce, outcome, pending, exitStatus>>

\* this.mcp.connect rejected: caught, logged and re-thrown.
HandshakeFails ==
    /\ pc = "handshake"
    /\ \E e \in Thrown : pending' = e
    /\ pc' = "cleanup"
    /\ UNCHANGED <<closed, env, client, transport, tools, toolsResult, mcpLog, rl, prompts, message,
                   messages, response, idx, finalText, result, calls, followUps,
                   inFlight, returned, printed, failedOnce, outcome, exitStatus>>

\* Mutant: the schema is copied under its old key.
CatalogNoRename(list) ==
    [i \in 1..Len(list) |->
        [name |-> list[i].name, description |-> list[i].description,
         inputSchema |-> list[i].inputSchema]]

\* connectToServer: the catalog built from toolsResult.tools.
Catalog(list) ==
    [i \in 1..Len(list) |->
        [name |-> list[i].name, description |-> list[i].description,
         input_schema |-> list[i].inputSchema]]

\* listTools resolved: this.tools is set and connectToServer returns.
ListToolsOk ==
    /\ pc = "discovery"
    /\ \E list \in ToolLists :
        /\ toolsResult' = list
        /\ tools' = Catalog(list)
    /\ pc' = "chatLoop"
    /\ UNCHANGED <<closed, env, client, transport, mcpLog, rl, prompts, message, messages,
                   response, idx, finalText, result, calls, followUps, inFlight,
                   returned, printed, failedOnce, outcome, pending, exitStatus>>

\* listTools rejected: caught, logged and re-thrown.
ListToolsFails ==
    /\ pc = "discovery"
    /\ \E e \in Thrown : pending' = e
    /\ pc' = "cleanup"
    /\ UNCHANGED <<closed, env, client, transport, tools, toolsResult, mcpLog, rl, prompts, message,
                   messages, response, idx, finalText, result, calls, followUps,
                   inFlight, returned, printed, failedOnce, outcome, exitStatus>>

\* chatLoop: readline.createInterface and the two banner lines.
ChatLoopStart ==
    /\ pc = "chatLoop"
    /\ rl' = "open"
    /\ pc' = "loopTop"
    /\ UNCHANGED <<closed, env, client, transport, tools, toolsResult, mcpLog, prompts, message,
                   messages, response, idx, finalText, result, calls, followUps,
                   inFlight, returned, printed, failedOnce, outcome, pending,
                   exitStatus>>

\* chatLoop: `await rl.question("\nQuery: ")` issues the prompt.
Question ==
    /\ pc = "loopTop"
    /\ prompts < MaxPrompts
    /\ prompts' = prompts + 1
    /\ pc' = "question"
    /\ UNCHANGED <<closed, env, client, transport, tools, toolsResult, mcpLog, rl, message, messages,
                   response, idx, finalText, result, calls, followUps, inFlight,
                   returned, printed, failedOnce, outcome, pending, exitStatus>>

\* Mutant: the quit test without case folding.
IsQuitCaseSensitive(line) == line = <<"q", "u", "i", "t">>

\* chatLoop: the test that leaves the loop.
IsQuit(line) == toLowerCase(line) = <<"q", "u", "i", "t">>

\* The operator typed the quit command: break, rl.close() in the finally, and
\* chatLoop returns into main's finally block.
ReadQuit ==
    /\ pc = "question"
    /\ \E line \in Lines :
        /\ IsQuit(line)
        /\ message' = line
    /\ rl' = "closed"
    /\ pc' = "cleanup"
    /\ UNCHANGED <<closed, env, client, transport, tools, toolsResult, mcpLog, prompts, messages,
                   response, idx, finalText, result, calls, followUps, inFlight,
                   returned, printed, failedOnce, outcome, pending, exitStatus>>

\* The model API request of the first call: messages and the catalog.
FirstCall(msgs) == [kind |-> "model", messages |-> msgs, tools |-> tools]

\* Mutant: the follow-up request with the catalog attached.
FollowUpCallWithTools(msgs) == [kind |-> "model", messages |-> msgs, tools |-> tools]

\* The model API request of a follow-up call: messages only.
FollowUpCall(msgs) == [kind |-> "model", messages |-> msgs]

\* The callTool request for a tool_use item.
ToolCall(item) == [kind |-> "tool", name |-> item.name, arguments |-> item.input]

\* Mutant: processQuery called without await, the loop goes straight on.
ReadQueryNoAwait ==
    /\ pc = "question"
    /\ \E line \in Lines :
        /\ toLowerCase(line) # <<"q", "u", "i", "t">>
        /\ message' = line
        /\ messages' = <<[role |-> "user", content |-> line]>>
        /\ calls' = <<[kind |-> "model", tools |-> tools,
                       messages |-> <<[role |-> "user", content |-> line]>>]>>
    /\ inFlight' = inFlight + 1
    /\ pc' = "loopTop"
    /\ UNCHANGED <<closed, env, client, transport, tools, toolsResult, mcpLog, rl, prompts, returned,
                   printed, failedOnce, pending, exitStatus, response, idx,
                   finalText, result, followUps, outcome>>

\* Mutant: a turn left behind by an earlier failed query.
NewMessagesAfterFailure(line) ==
    (IF failedOnce THEN <<[role |-> "assistant", content |-> <<"Error: ">>]>>
     ELSE << >>) \o <<[role |-> "user", content |-> line]>>

\* processQuery: the messages array a call starts with.
NewMessages(line) == <<[role |-> "user", content |-> line]>>

\* Any other line: chatLoop calls processQuery, which builds the messages
\* array and awaits the first API call.
ReadQuery ==
    /\ pc = "question"
    /\ \E line \in Lines :
        /\ ~IsQuit(line)
        /\ message' = line
        /\ messages' = NewMessages(line)
        /\ calls' = <<FirstCall(NewMessages(line))>>
    /\ inFlight' = inFlight + 1
    /\ response' = << >>
    /\ idx' = 0
    /\ finalText' = << >>
    /\ result' = << >>
    /\ followUps' = << >>
    /\ outcome' = "none"
    /\ pc' = "round1"
    /\ UNCHANGED <<closed, env, client, transport, tools, toolsResult, mcpLog, rl, prompts, returned,
                   printed, failedOnce, pending, exitStatus>>

\* rl.question rejected: the finally closes the interface and the error
\* leaves chatLoop into main's try block.
QuestionFails ==
    /\ pc = "question"
    /\ \E e \in Thrown : pending' = e
    /\ rl' = "closed"
    /\ pc' = "cleanup"
    /\ UNCHANGED <<closed, env, client, transport, tools, toolsResult, mcpLog, prompts, message,
                   messages, response, idx, finalText, result, calls, followUps,
                   inFlight, returned, printed, failedOnce, outcome, exitStatus>>

\* Mutant: the catch block returns the message and the parts collected so far.
CatchReturnWithPartial(e) ==
    <<"Error: ">> \o
        (IF e.type = "Error" THEN e.message ELSE <<"Unknown error occurred">>)
        \o join(finalText, <<"\n">>)

\* Mutant: the catch block returns the bare message.
CatchReturnNoPrefix(e) ==
    IF e.type = "Error" THEN e.message ELSE <<"Unknown error occurred">>

\* processQuery: the string the catch block returns for a thrown value.
CatchReturn(e) ==
    <<"Error: ">> \o
        (IF e.type = "Error" THEN e.message ELSE <<"Unknown error occurred">>)

\* Mutant: a failed query ends the loop.
CaughtLeavesLoop(e) ==
    /\ returned' = <<"Error: ">> \o
            (IF e.type = "Error" THEN e.message ELSE <<"Unknown error occurred">>)
    /\ inFlight' = inFlight - 1
    /\ outcome' = "catch"
    /\ failedOnce' = TRUE
    /\ pc' = "cleanup"

\* processQuery: the catch block; the call returns to chatLoop.
Caught(e) ==
    /\ returned' = CatchReturn(e)
    /\ inFlight' = inFlight - 1
    /\ outcome' = "catch"
    /\ failedOnce' = TRUE
    /\ pc' = "print"

\* First API call resolved: the for-of loop over response.content starts.
FirstCallOk ==
    /\ pc = "round1"
    /\ \E content \in FirstResponses : response' = content
    /\ idx' = 1
    /\ finalText' = << >>
    /\ pc' = "loop"
    /\ UNCHANGED <<closed, env, client, transport, tools, toolsResult, mcpLog, rl, prompts, message,
                   messages, result, calls, followUps, inFlight, returned,
                   printed, failedOnce, outcome, pending, exitStatus>>

\* First API call rejected.
FirstCallFails ==
    /\ pc = "round1"
    /\ \E e \in Thrown : Caught(e)
    /\ UNCHANGED <<closed, env, client, transport, tools, toolsResult, mcpLog, rl, prompts, message,
                   messages, response, idx, finalText, result, calls, followUps,
                   printed, pending, exitStatus>>

\* Loop body, text item: push the text.
LoopText ==
    /\ pc = "loop"
    /\ idx <= Len(response)
    /\ response[idx].type = "text"
    /\ finalText' = Append(finalText, response[idx].text)
    /\ idx' = idx + 1
    /\ UNCHANGED <<closed, pc, env, client, transport, tools, toolsResult, mcpLog, rl, prompts,
                   message, messages, response, result, calls, followUps,
                   inFlight, returned, printed, failedOnce, outcome, pending,
                   exitStatus>>

\* Loop body, tool_use item: `await this.mcp.callTool(...)`.
LoopToolUse ==
    /\ pc = "loop"
    /\ idx <= Len(response)
    /\ response[idx].type = "tool_use"
    /\ calls' = Append(calls, ToolCall(response[idx]))
    /\ mcpLog' = Append(mcpLog, "callTool")
    /\ pc' = "callTool"
    /\ UNCHANGED <<closed, env, client, transport, tools, toolsResult, rl, prompts, message, messages,
                   response, idx, finalText, result, followUps, inFlight,
                   returned, printed, failedOnce, outcome, pending, exitStatus>>

\* processQuery: the line pushed after a tool ran.
CallingLine(item) ==
    <<"[Calling tool ", item.name, " with args ">> \o JSONstringify(item.input)
        \o <<"]">>

\* Mutant: the tool result replaces the earlier tool results.
CallToolOkReplacesHistory ==
    /\ pc = "callTool"
    /\ \E r \in ToolResults :
        /\ result' = r
        /\ messages' = <<messages[1], [role |-> "user", content |-> r]>>
        /\ calls' = Append(calls,
                [kind |-> "model",
                 messages |-> <<messages[1], [role |-> "user", content |-> r]>>])
    /\ finalText' = Append(finalText, CallingLine(response[idx]))
    /\ pc' = "followUp"
    /\ UNCHANGED <<closed, env, client, transport, tools, toolsResult, mcpLog, rl,
                   prompts, message, response, idx, followUps, inFlight,
                   returned, printed, failedOnce, outcome, pending,
                   exitStatus>>

\* Mutant: the diagnostic line is put at the front of finalText.
CallToolOkLineFirst ==
    /\ pc = "callTool"
    /\ \E r \in ToolResults :
        /\ result' = r
        /\ messages' = Append(messages, [role |-> "user", content |-> r])
        /\ calls' = Append(calls,
                [kind |-> "model",
                 messages |-> Append(messages, [role |-> "user", content |-> r])])
    /\ finalText' = <<CallingLine(response[idx])>> \o finalText
    /\ pc' = "followUp"
    /\ UNCHANGED <<closed, env, client, transport, tools, toolsResult, mcpLog, rl, prompts, message,
                   response, idx, followUps, inFlight, returned, printed,
                   failedOnce, outcome, pending, exitStatus>>

\* callTool resolved: push the diagnostic line, push the result as a user
\* message and await the follow-up API call.
CallToolOk ==
    /\ pc = "callTool"
    /\ \E r \in ToolResults :
        /\ result' = r
        /\ messages' = Append(messages, [role |-> "user", content |-> r])
        /\ calls' = Append(calls,
                FollowUpCall(Append(messages, [role |-> "user", content |-> r])))
    /\ finalText' = Append(finalText, CallingLine(response[idx]))
    /\ pc' = "followUp"
    /\ UNCHANGED <<closed, env, client, transport, tools, toolsResult, mcpLog, rl, prompts, message,
                   response, idx, followUps, inFlight, returned, printed,
                   failedOnce, outcome, pending, exitStatus>>

\* callTool rejected.
CallToolFails ==
    /\ pc = "callTool"
    /\ \E e \in Thrown : Caught(e)
    /\ UNCHANGED <<closed, env, client, transport, tools, toolsResult, mcpLog, rl, prompts, message,
                   messages, response, idx, finalText, result, calls, followUps,
                   printed, pending, exitStatus>>

\* processQuery: what is pushed for a follow-up response with a first item.
FollowUpText(content) ==
    IF content[1].type = "text" THEN content[1].text ELSE << >>

\* Mutant: nothing is pushed when the first follow-up item is not text.
FollowUpOkSkipsNonText ==
    /\ pc = "followUp"
    /\ \E content \in FollowUpResponses :
        /\ Len(content) > 0
        /\ followUps' = Append(followUps, content)
        /\ finalText' = IF content[1].type = "text"
                        THEN Append(finalText, content[1].text)
                        ELSE finalText
    /\ idx' = idx + 1
    /\ pc' = "loop"
    /\ UNCHANGED <<closed, env, client, transport, tools, toolsResult, mcpLog, rl,
                   prompts, message, messages, response, result, calls,
                   inFlight, returned, printed, failedOnce, outcome, pending,
                   exitStatus>>

\* Mutant: a tool_use item in the follow-up response is executed too.
FollowUpOkRecursive ==
    /\ pc = "followUp"
    /\ \E content \in FollowUpResponses :
        /\ Len(content) > 0
        /\ followUps' = Append(followUps, content)
        /\ finalText' = Append(finalText, FollowUpText(content))
        /\ calls' = IF content[1].type = "tool_use"
                    THEN calls \o <<[kind |-> "tool", name |-> content[1].name,
                                     arguments |-> content[1].input],
                                    [kind |-> "model", messages |-> messages]>>
                    ELSE calls
    /\ idx' = idx + 1
    /\ pc' = "loop"
    /\ UNCHANGED <<closed, env, client, transport, tools, toolsResult, mcpLog, rl,
                   prompts, message, messages, response, result, inFlight,
                   returned, printed, failedOnce, outcome, pending,
                   exitStatus>>

\* Mutant: the loop skips the item after a tool_use.
FollowUpOkSkipsItem ==
    /\ pc = "followUp"
    /\ \E content \in FollowUpResponses :
        /\ Len(content) > 0
        /\ followUps' = Append(followUps, content)
        /\ finalText' = Append(finalText, FollowUpText(content))
    /\ idx' = idx + 2
    /\ pc' = "loop"
    /\ UNCHANGED <<closed, env, client, transport, tools, toolsResult, mcpLog, rl, prompts, message,
                   messages, response, result, calls, inFlight, returned,
                   printed, failedOnce, outcome, pending, exitStatus>>

\* Follow-up API call resolved with at least one content item.
FollowUpOk ==
    /\ pc = "followUp"
    /\ \E content \in FollowUpResponses :
        /\ Len(content) > 0
        /\ followUps' = Append(followUps, content)
        /\ finalText' = Append(finalText, FollowUpText(content))
    /\ idx' = idx + 1
    /\ pc' = "loop"
    /\ UNCHANGED <<closed, env, client, transport, tools, toolsResult, mcpLog, rl, prompts, message,
                   messages, response, result, calls, inFlight, returned,
                   printed, failedOnce, outcome, pending, exitStatus>>

\* Mutant: an empty follow-up response contributes nothing and the loop goes on.
FollowUpEmptyIgnored ==
    /\ pc = "followUp"
    /\ followUps' = Append(followUps, << >>)
    /\ idx' = idx + 1
    /\ pc' = "loop"
    /\ UNCHANGED <<closed, env, client, transport, tools, toolsResult, mcpLog, rl,
                   prompts, message, messages, response, finalText, result,
                   calls, inFlight, returned, printed, failedOnce, outcome,
                   pending, exitStatus>>

\* Follow-up API call resolved with an empty content array: reading
\* content[0].type throws a TypeError, which the catch block handles.
FollowUpEmpty ==
    /\ pc = "followUp"
    /\ << >> \in FollowUpResponses
    /\ followUps' = Append(followUps, << >>)
    /\ Caught(ErrorObj(<<"Cannot read properties of undefined">>))
    /\ UNCHANGED <<closed, env, client, transport, tools, toolsResult, mcpLog, rl, prompts, message,
                   messages, response, idx, finalText, result, calls, printed,
                   pending, exitStatus>>

\* Follow-up API call rejected.
FollowUpFails ==
    /\ pc = "followUp"
    /\ \E e \in Thrown : Caught(e)
    /\ UNCHANGED <<closed, env, client, transport, tools, toolsResult, mcpLog, rl, prompts, message,
                   messages, response, idx, finalText, result, calls, followUps,
                   printed, pending, exitStatus>>

\* Mutant: the parts are joined by a space.
LoopEndJoinSpace ==
    /\ pc = "loop"
    /\ idx > Len(response)
    /\ returned' = join(finalText, <<" ">>)
    /\ inFlight' = inFlight - 1
    /\ outcome' = "try"
    /\ pc' = "print"
    /\ UNCHANGED <<closed, env, client, transport, tools, toolsResult, mcpLog, rl, prompts, message,
                   messages, response, idx, finalText, result, calls, followUps,
                   printed, failedOnce, pending, exitStatus>>

\* The loop is over: return finalText.join("\n").
LoopEnd ==
    /\ pc = "loop"
    /\ idx > Len(response)
    /\ returned' = join(finalText, <<"\n">>)
    /\ inFlight' = inFlight - 1
    /\ outcome' = "try"
    /\ pc' = "print"
    /\ UNCHANGED <<closed, env, client, transport, tools, toolsResult, mcpLog, rl, prompts, message,
                   messages, response, idx, finalText, result, calls, followUps,
                   printed, failedOnce, pending, exitStatus>>

\* chatLoop: print the response and go round the loop; message, response and
\* everything the processQuery call held go out of scope with the iteration.
PrintResponse ==
    /\ pc = "print"
    /\ printed' = printed + 1
    /\ message' = << >>
    /\ messages' = << >>
    /\ response' = << >>
    /\ idx' = 0
    /\ finalText' = << >>
    /\ result' = << >>
    /\ calls' = << >>
    /\ followUps' = << >>
    /\ returned' = << >>
    /\ outcome' = "none"
    /\ pc' = "loopTop"
    /\ UNCHANGED <<closed, env, client, transport, tools, toolsResult, mcpLog, rl, prompts, inFlight,
                   failedOnce, pending, exitStatus>>

\* Mutant: cleanup also empties the catalog.
CleanupClearsTools ==
    /\ pc = "cleanup"
    /\ mcpLog' = Append(mcpLog, "close")
    /\ tools' = << >>
    /\ pc' = "closing"
    /\ UNCHANGED <<closed, env, client, transport, toolsResult, rl, prompts, message,
                   messages, response, idx, finalText, result, calls,
                   followUps, inFlight, returned, printed, failedOnce,
                   outcome, pending, exitStatus>>

\* Mutant: cleanup that does not close the channel.
CleanupNoClose ==
    /\ pc = "cleanup"
    /\ pc' = "closing"
    /\ UNCHANGED <<closed, env, client, transport, tools, toolsResult, mcpLog, rl, prompts, message,
                   messages, response, idx, finalText, result, calls, followUps,
                   inFlight, returned, printed, failedOnce, outcome, pending,
                   exitStatus>>

\* main's finally block: cleanup() awaits this.mcp.close().
Cleanup ==
    /\ pc = "cleanup"
    /\ mcpLog' = Append(mcpLog, "close")
    /\ pc' = "closing"
    /\ UNCHANGED <<closed, env, client, transport, tools, toolsResult, rl, prompts, message, messages,
                   response, idx, finalText, result, calls, followUps, inFlight,
                   returned, printed, failedOnce, outcome, pending, exitStatus>>

\* Mutant: no process.exit in the finally, a pending error leaves main.
CloseOkPropagates ==
    /\ pc = "closing"
    /\ closed' = TRUE
    /\ exitStatus' = IF pending = NoError THEN 0 ELSE 1
    /\ pc' = "exited"
    /\ UNCHANGED <<env, client, transport, tools, toolsResult, mcpLog, rl,
                   prompts, message, messages, response, idx, finalText,
                   result, calls, followUps, inFlight, returned, printed,
                   failedOnce, outcome, pending>>

\* close resolved: process.exit(0) ends the process whatever error is pending.
CloseOk ==
    /\ pc = "closing"
    /\ closed' = TRUE
    /\ exitStatus' = 0
    /\ pc' = "exited"
    /\ UNCHANGED <<env, client, transport, tools, toolsResult, mcpLog, rl, prompts, message,
                   messages, response, idx, finalText, result, calls, followUps,
                   inFlight, returned, printed, failedOnce, outcome, pending>>

\* close rejected: the finally block throws before process.exit, main()
\* rejects and the unhandled rejection ends the process with status 1.
CloseFails ==
    /\ pc = "closing"
    /\ \E e \in Thrown : pending' = e
    /\ exitStatus' = 1
    /\ pc' = "exited"
    /\ UNCHANGED <<closed, env, client, transport, tools, toolsResult, mcpLog, rl, prompts, message,
                   messages, response, idx, finalText, result, calls, followUps,
                   inFlight, returned, printed, failedOnce, outcome>>

Next ==
    \/ CheckApiKey
    \/ Main
    \/ ConnectToServer
    \/ HandshakeOk
    \/ HandshakeFails
    \/ ListToolsOk
    \/ ListToolsFails
    \/ ChatLoopStart
    \/ Question
    \/ ReadQuit
    \/ ReadQuery
    \/ QuestionFails
    \/ FirstCallOk
    \/ FirstCallFails
    \/ LoopText
    \/ LoopToolUse
    \/ CallToolOk
    \/ CallToolFails
    \/ FollowUpOk
    \/ FollowUpEmpty
    \/ FollowUpFails
    \/ LoopEnd
    \/ PrintResponse
    \/ Cleanup
    \/ CloseOk
    \/ CloseFails

Spec == Init /\ [][Next]_vars

\* ------------------------------------------------------------ properties
InProcessQuery == pc \in {"round1", "loop", "callTool", "followUp"}

ToolUses(content) == SelectSeq(content, LAMBDA item : item.type = "tool_use")

ModelCalls(log) == SelectSeq(log, LAMBDA c : c.kind = "model")

ToolCalls(log) == SelectSeq(log, LAMBDA c : c.kind = "tool")

Count(log, name) == Len(SelectSeq(log, LAMBDA c : c = name))

ErrorPrefix == <<"Error: ">>

\* C1: processQuery never raises to chatLoop: from any point of a resolution
\* control stays in processQuery or returns to chatLoop's print statement with
\* no error pending, and a call that ended in the catch block returned a
\* string that begins with "Error: ".
C1_NeverRaises ==
    /\ [](pc = "print" /\ outcome = "catch" => startsWith(returned, ErrorPrefix))
    /\ [](InProcessQuery \/ pc = "print" => pending = NoError)
    /\ [][InProcessQuery => InProcessQuery' \/ pc' = "print"]_vars

C1_Witness ==
    /\ pc = "print"
    /\ outcome = "catch"
    /\ Len(calls) = 5
    /\ Len(followUps) = 1

\* The calls a resolution makes when nothing fails: the first API call, then
\* for each tool_use item its callTool followed by its follow-up API call.
CallMatches(log, content, j) ==
    IF j = 1 THEN log[j].kind = "model"
    ELSE IF j % 2 = 0
         THEN /\ log[j].kind = "tool"
              /\ log[j].name = ToolUses(content)[j \div 2].name
              /\ log[j].arguments = ToolUses(content)[j \div 2].input
         ELSE log[j].kind = "model"

CallsInItemOrder(log, content) ==
    /\ Len(log) <= 2 * Len(ToolUses(content)) + 1
    /\ \A j \in 1..Len(log) : CallMatches(log, content, j)

\* C2 as stated: whenever processQuery has returned, the number of tool
\* invocations and the number of follow-up calls both equal the number of
\* tool_use items of the first response.
C2_ExactlyNAlways ==
    pc = "print" =>
        /\ Len(ToolCalls(calls)) = Len(ToolUses(response))
        /\ Len(ModelCalls(calls)) = Len(ToolUses(response)) + 1

\* C2 (amended): a resolution that returns from the try block has made, for
\* the N tool_use items of its first response, exactly N tool invocations and
\* N follow-up calls, invocation i then follow-up i in item order; at every
\* point of any resolution the calls made so far are a prefix of that order.
C2_ExactlyNOnSuccess ==
    /\ (idx > 0 => CallsInItemOrder(calls, response))
    /\ (pc = "print" /\ outcome = "try" =>
            /\ Len(calls) = 2 * Len(ToolUses(response)) + 1
            /\ Len(ToolCalls(calls)) = Len(ToolUses(response))
            /\ Len(ModelCalls(calls)) = Len(ToolUses(response)) + 1)

C2_Witness ==
    /\ pc = "print"
    /\ outcome = "try"
    /\ Len(ToolUses(response)) = 2
    /\ ToolUses(response)[1] # ToolUses(response)[2]

\* C3: when the first response holds only text items, processQuery returns
\* those texts joined by newline, having made the first API call and no
\* other call.
C3_TextOnly ==
    pc = "print" /\ idx > 0 /\ ToolUses(response) = << >> =>
        /\ outcome = "try"
        /\ returned = join([i \in 1..Len(response) |-> response[i].text], <<"\n">>)
        /\ Len(calls) = 1
        /\ calls[1].kind = "model"

C3_Witness ==
    /\ pc = "print"
    /\ idx > 0
    /\ Len(response) = 2
    /\ ToolUses(response) = << >>
    /\ returned = <<"A", "\n", "A">>

\* C4: the first model call of a resolution carries the catalog and no later
\* model call of it carries a tools field.
C4_ToolsOnFirstCallOnly ==
    \A j \in 1..Len(calls) :
        calls[j].kind = "model" =>
            IF j = 1
            THEN "tools" \in DOMAIN calls[j] /\ calls[j].tools = tools
            ELSE "tools" \notin DOMAIN calls[j]

C4_Witness ==
    /\ Len(ModelCalls(calls)) = 3
    /\ tools # << >>
    /\ calls[1].tools = tools

\* The output parts the round-1 items stand for, in item order: a text item
\* its text, the k-th tool_use item its diagnostic line and then the text of
\* the k-th follow-up response.
ArgsText(input) ==
    IF input = UndefinedInput THEN <<"undefined">>
    ELSE <<"{", "\"query\"", ":", "\"", "typescript", "\"", "}">>

RECURSIVE Parts(_, _)
Parts(content, follow) ==
    IF content = << >> THEN << >>
    ELSE IF Head(content).type = "text"
         THEN <<Head(content).text>> \o Parts(Tail(content), follow)
         ELSE << <<"[Calling tool ", Head(content).name, " with args ">>
                     \o ArgsText(Head(content).input) \o <<"]">>,
                 Head(follow)[1].text >>
              \o Parts(Tail(content), Tail(follow))

\* C5: a resolution that returns from the try block, every follow-up response
\* of which starts with a text item, returns the parts of the round-1 items in
\* item order joined by newline, each diagnostic line directly before the
\* follow-up text of its item.
C5_OutputOrder ==
    (/\ pc = "print"
     /\ outcome = "try"
     /\ \A k \in 1..Len(followUps) : followUps[k][1].type = "text")
    => returned = join(Parts(response, followUps), <<"\n">>)

C5_Witness ==
    /\ pc = "print"
    /\ outcome = "try"
    /\ response = <<ToolUse("web_search", SearchInput), Text(<<"A">>)>>
    /\ returned = <<"[Calling tool ", "web_search", " with args ", "{",
                    "\"query\"", ":", "\"", "typescript", "\"", "}", "]",
                    "\n", "S", "\n", "A">>

Quit == <<"q", "u", "i", "t">>

RECURSIVE TrimStart(_)
TrimStart(s) == IF s # << >> /\ Head(s) = " " THEN TrimStart(Tail(s)) ELSE s

RECURSIVE TrimEnd(_)
TrimEnd(s) ==
    IF s # << >> /\ s[Len(s)] = " " THEN TrimEnd(SubSeq(s, 1, Len(s) - 1)) ELSE s

Trim(s) == TrimEnd(TrimStart(s))

LeftLoop == pc \in {"cleanup", "closing", "exited"}

\* C6 as stated: no line whose trimmed, case-folded form is quit is ever
\* passed to processQuery.
C6_TrimmedQuitExits ==
    InProcessQuery => Trim(toLowerCase(message)) # Quit

\* C6 (amended): a line read at the prompt leaves the loop, with no
\* processQuery call and no further prompt, exactly when its case-folded form
\* (untrimmed) equals quit; every other line is passed to processQuery as the
\* query.
C6_CaseFoldedQuitExits ==
    /\ [][pc = "question" /\ pc' # pc /\ pending' = pending =>
            IF toLowerCase(message') = Quit
            THEN /\ LeftLoop'
                 /\ inFlight' = 0
                 /\ calls' = calls
            ELSE /\ pc' = "round1"
                 /\ inFlight' = 1
                 /\ calls'[1].messages = <<[role |-> "user", content |-> message']>>]_vars
    /\ [][LeftLoop => LeftLoop' /\ prompts' = prompts /\ calls' = calls]_vars

C6_Witness ==
    /\ pc = "cleanup"
    /\ message = <<"Q", "U", "I", "T">>
    /\ pending = NoError
    /\ printed = 1

\* C7: at most one processQuery call is in flight, and while one is in flight
\* chatLoop is neither at the top of its loop nor waiting at a prompt.
C7_OneInFlight ==
    /\ inFlight \in {0, 1}
    /\ (inFlight = 1 <=> InProcessQuery)
    /\ (pc \in {"loopTop", "question"} => inFlight = 0)

C7_Witness ==
    /\ inFlight = 1
    /\ pc = "followUp"
    /\ prompts = 2

C9_ClosedOnce ==
    /\ Count(mcpLog, "close") <= 1
    /\ (Count(mcpLog, "close") = 1 => pc \in {"closing", "exited"} /\ inFlight = 0)
    /\ (pc \in {"closing", "exited"} /\ client => Count(mcpLog, "close") = 1)

C9_Witness ==
    /\ pc = "exited"
    /\ rl = "closed"
    /\ pending # NoError
    /\ printed >= 1
    /\ Count(mcpLog, "close") = 1
    /\ exitStatus = 0

LastThree(path) ==
    IF Len(path) < 3 THEN path ELSE SubSeq(path, Len(path) - 2, Len(path))

BadExtension(path) ==
    /\ LastThree(path) # <<".", "j", "s">>
    /\ LastThree(path) # <<".", "p", "y">>

\* C10: with a script path that ends in neither .js nor .py, connectToServer
\* fails with no transport created, no connect and no listTools call made and
\* an empty catalog.
C10_BadExtensionFailsEarly ==
    Len(env.argv) = 3 /\ BadExtension(env.argv[3]) =>
        /\ transport = NoTransport
        /\ Count(mcpLog, "connect") = 0
        /\ Count(mcpLog, "listTools") = 0
        /\ tools = << >>
        /\ pc \notin {"handshake", "discovery", "chatLoop", "loopTop", "question"}
        /\ (pc \in {"cleanup", "closing"} => pending # NoError)

C10_Witness ==
    /\ Len(env.argv) = 3
    /\ env.argv[3] = <<"s", ".", "p", "y", "c">>
    /\ pc = "closing"
    /\ pending = ErrorObj(<<"Server script must be a .js or .py file">>)

Connecting == pc \in {"connect", "handshake", "discovery"}

\* C11: a connectToServer failure is re-thrown into main: the step that fails
\* goes straight to cleanup with the error pending; a process that reached
\* teardown without opening the line reader has issued no prompt and made no
\* model call, and has called close before it exits; the line reader is only
\* ever opened after the transport was created and both connect and listTools
\* were called.
C11_ConnectFailureFatal ==
    /\ [][Connecting =>
            \/ Connecting' /\ pending' = NoError
            \/ pc' = "chatLoop" /\ pc = "discovery" /\ pending' = NoError
            \/ pc' = "cleanup" /\ pending' # NoError]_vars
    /\ [](client /\ rl = "none" /\ LeftLoop =>
            /\ pending # NoError
            /\ prompts = 0
            /\ printed = 0
            /\ calls = << >>
            /\ inFlight = 0
            /\ Count(mcpLog, "callTool") = 0)
    /\ [](pc = "exited" /\ client => Count(mcpLog, "close") = 1)
    /\ [](pc = "chatLoop" \/ rl # "none" =>
            /\ transport # NoTransport
            /\ Count(mcpLog, "connect") = 1
            /\ Count(mcpLog, "listTools") = 1)

C11_Witness ==
    /\ pc = "exited"
    /\ client
    /\ rl = "none"
    /\ mcpLog = <<"connect", "listTools", "close">>
    /\ pending # NoError
    /\ exitStatus = 0

\* C12: the catalog has the length and order of the discovered tool list, and
\* each descriptor has exactly the keys name, description and input_schema,
\* holding the tool's name, description and inputSchema unchanged.
C12_CatalogIsRename ==
    /\ Len(tools) = Len(toolsResult)
    /\ \A i \in 1..Len(tools) :
        /\ DOMAIN tools[i] = {"name", "description", "input_schema"}
        /\ tools[i].name = toolsResult[i].name
        /\ tools[i].description = toolsResult[i].description
        /\ tools[i].input_schema = toolsResult[i].inputSchema

C12_Witness ==
    /\ pc = "chatLoop"
    /\ toolsResult = <<WebSearch, Calc>>
    /\ tools[2].input_schema = [type |-> "object", required |-> <<"expr">>]

\* C13: with the credential absent no client is constructed, no transport is
\* created, no call is made on the channel, no prompt is issued and no model
\* call is made; the process ends at the credential check with status 1,
\* with or without a script path argument.
C13_MissingKeyAborts ==
    ~env.apiKey =>
        /\ client = FALSE
        /\ transport = NoTransport
        /\ mcpLog = << >>
        /\ rl = "none"
        /\ prompts = 0
        /\ calls = << >>
        /\ pc \in {"boot", "exited"}
        /\ (pc = "exited" => exitStatus = 1 /\ pending # NoError)

C13_Witness ==
    /\ ~env.apiKey
    /\ Len(env.argv) = 3
    /\ pc = "exited"

\* The output parts of the round-1 items when a follow-up response whose
\* first item is not text contributes `other` (a sequence of parts).
RECURSIVE PartsWith(_, _, _)
PartsWith(content, follow, other) ==
    IF content = << >> THEN << >>
    ELSE IF Head(content).type = "text"
         THEN <<Head(content).text>> \o PartsWith(Tail(content), follow, other)
         ELSE << <<"[Calling tool ", Head(content).name, " with args ">>
                     \o ArgsText(Head(content).input) \o <<"]">> >>
              \o (IF Head(follow)[1].type = "text"
                  THEN <<Head(follow)[1].text>> ELSE other)
              \o PartsWith(Tail(content), Tail(follow), other)

\* C14 as stated: a follow-up response whose first item is not text adds no
\* part, so the returned string is the join of the other parts.
C14_NothingAppended ==
    pc = "print" /\ outcome = "try" =>
        returned = join(PartsWith(response, followUps, << >>), <<"\n">>)

\* C14 (amended): a follow-up response whose first item is not text adds an
\* empty string as a part of its own, so the returned string has one more
\* newline separator after that item's diagnostic line.
C14_EmptyStringAppended ==
    pc = "print" /\ outcome = "try" =>
        returned = join(PartsWith(response, followUps, << << >> >>), <<"\n">>)

C14_Witness ==
    /\ pc = "print"
    /\ outcome = "try"
    /\ response = <<ToolUse("calc", UndefinedInput)>>
    /\ followUps[1][1].type = "tool_use"
    /\ returned = <<"[Calling tool ", "calc", " with args ", "undefined", "]", "\n">>

\* C15: within a resolution the j-th model call carries j turns, all of role
\* user, the first being the query; each model call's turns are the previous
\* model call's turns plus one, and the turn added for a tool use is the
\* result callTool returned for it.
C15_AppendOnly ==
    /\ [](\A j \in 1..Len(ModelCalls(calls)) :
            LET m == ModelCalls(calls)[j].messages IN
            /\ Len(m) = j
            /\ m[1] = [role |-> "user", content |-> message]
            /\ \A t \in 1..Len(m) : m[t].role = "user"
            /\ j > 1 => SubSeq(m, 1, j - 1) = ModelCalls(calls)[j - 1].messages)
    /\ [][pc = "callTool" /\ pc' = "followUp" =>
            /\ messages' = Append(messages, [role |-> "user", content |-> result'])
            /\ calls'[Len(calls')].messages = messages']_vars
    /\ [][InProcessQuery /\ InProcessQuery' /\ pc # "callTool" =>
            messages' = messages]_vars

C15_Witness ==
    /\ pc = "followUp"
    /\ Len(messages) = 3
    /\ messages[2].content = <<"r2">>
    /\ messages[3].content = <<"r1">>
    /\ calls[5].messages = messages

\* C16: the first model call of every resolution carries exactly one turn,
\* role user with the line just read as content, whatever earlier queries of
\* the session did.
C16_NoCrossQueryMemory ==
    calls # << >> =>
        /\ calls[1].kind = "model"
        /\ calls[1].messages = <<[role |-> "user", content |-> message]>>

C16_Witness ==
    /\ pc = "round1"
    /\ printed = 1
    /\ failedOnce
    /\ Count(mcpLog, "callTool") >= 1
    /\ calls = <<[kind |-> "model", tools |-> tools,
                  messages |-> <<[role |-> "user", content |-> <<"h", "i">>]>>]>>

\* C17: once connectToServer is over no step changes this.tools, and the
\* first model call of every resolution carries the catalog built from the
\* discovered tool list.
C17_CatalogFixed ==
    /\ [][~(pc \in {"boot", "main"} \/ Connecting) => tools' = tools]_vars
    /\ [](calls # << >> =>
            /\ Len(calls[1].tools) = Len(toolsResult)
            /\ \A i \in 1..Len(toolsResult) :
                /\ calls[1].tools[i].name = toolsResult[i].name
                /\ calls[1].tools[i].input_schema = toolsResult[i].inputSchema)

C17_Witness ==
    /\ pc = "exited"
    /\ tools = Catalog(<<WebSearch, Calc>>)
    /\ failedOnce
    /\ printed = 1
    /\ Count(mcpLog, "close") = 1

\* C18: a resolution whose first response has N tool_use items never makes
\* more than N tool invocations or N+1 model calls, whatever the follow-up
\* responses contain, and the loop position only moves forward to the end of
\* the first response.
C18_NotRecursive ==
    /\ [](idx > 0 =>
            /\ Len(ToolCalls(calls)) <= Len(ToolUses(response))
            /\ Len(ModelCalls(calls)) <= Len(ToolUses(response)) + 1
            /\ idx <= Len(response) + 1)
    /\ [][InProcessQuery /\ InProcessQuery' /\ idx > 0 =>
            response' = response /\ idx' >= idx]_vars

C18_Witness ==
    /\ pc = "print"
    /\ outcome = "try"
    /\ Len(ToolUses(response)) = 1
    /\ followUps = << <<ToolUse("calc", UndefinedInput), Text(<<"S">>)>> >>
    /\ Len(calls) = 3

ErrorMessages ==
    { <<"boom">>, <<"Unknown error occurred">>,
      <<"Cannot read properties of undefined">> }

Tokens(str) == {str[i] : i \in 1..Len(str)}

\* C19: a failure after the first response makes no further call for the
\* item that failed or for any later item, and the string returned is
\* "Error: " followed by the error message alone: none of the parts collected
\* in finalText occurs in it.
C19_FailureDiscardsPartial ==
    /\ [](pc = "print" /\ outcome = "catch" =>
            /\ \E m \in ErrorMessages : returned = ErrorPrefix \o m
            /\ \A k \in 1..Len(finalText) :
                finalText[k] # << >> => ~(Tokens(finalText[k]) \subseteq Tokens(returned)))
    /\ [][outcome' = "catch" /\ outcome # "catch" =>
            /\ calls' = calls
            /\ mcpLog' = mcpLog
            /\ idx' = idx
            /\ pc' = "print"]_vars
    /\ [][pc = "print" =>
            calls' = << >> /\ mcpLog' = mcpLog /\ pc' = "loopTop"]_vars

C19_Witness ==
    /\ pc = "print"
    /\ outcome = "catch"
    /\ Len(response) = 2
    /\ idx = 1
    /\ Len(finalText) = 1
    /\ Len(calls) = 3
    /\ Len(ToolUses(response)) = 2

\* C20: a follow-up response with no content item ends the resolution in the
\* catch block: the call returns a string that begins with "Error: ", the
\* loop position stays at the item, and no call is made for a later item.
C20_EmptyFollowUpFails ==
    \A k \in 1..Len(followUps) :
        followUps[k] = << >> =>
            /\ k = Len(followUps)
            /\ pc = "print"
            /\ outcome = "catch"
            /\ startsWith(returned, ErrorPrefix)
            /\ Len(calls) = 2 * k + 1
            /\ response[idx].type = "tool_use"

C20_Witness ==
    /\ pc = "print"
    /\ followUps = << << >> >>
    /\ Len(ToolUses(response)) = 2
    /\ idx = 1

\* C21: the transport is created with the script path as its only argument
\* and a command fixed by the path suffix and the platform: python on win32
\* and python3 on any other platform for a path ending in .py, the runtime's
\* own executable on every platform for a path ending in .js.
C21_InterpreterSelection ==
    transport # NoTransport =>
        /\ transport.args = <<env.argv[3]>>
        /\ (LastThree(env.argv[3]) = <<".", "p", "y">> =>
                transport.command =
                    (IF env.platform = "win32" THEN "python" ELSE "python3"))
        /\ (LastThree(env.argv[3]) = <<".", "j", "s">> =>
                transport.command = "execPath")
        /\ ~BadExtension(env.argv[3])

C21_Witness ==
    /\ transport = [command |-> "python3", args |-> << <<"s", ".", "p", "y">> >>]
    /\ env.platform = "darwin"
    /\ pc = "handshake"

\* C22: in a process that constructed a client, once close has resolved the
\* process has exited with status 0, whether or not an error is pending from
\* connectToServer or chatLoop; the pending error is left as it was.
C22_ExitZeroAfterCleanup ==
    /\ [](closed => pc = "exited" /\ client /\ exitStatus = 0)
    /\ [][pc = "closing" /\ closed' =>
            pc' = "exited" /\ exitStatus' = 0 /\ pending' = pending]_vars
    /\ [](client /\ pc # "exited" => exitStatus = -1)

C22_Witness ==
    /\ closed
    /\ pc = "exited"
    /\ pending # NoError
    /\ rl = "closed"
    /\ exitStatus = 0
====
